---- MODULE Spec2Model ----
(***************************************************************************)
(* Model of the seller-apis repository (seller.py: Ozon, market.py:        *)
(* Yandex.Market): price conversion, batching, stock and price             *)
(* reconciliation, the paginated offer-id listing and the sync runs.       *)
(*                                                                         *)
(* Python strings that the code inspects character by character (prices,   *)
(* quantity tokens) are sequences of one-character strings.  A Python      *)
(* exception is a value of ExcKinds carried in the variable exc.           *)
(***************************************************************************)
EXTENDS Integers, Sequences, FiniteSets, TLC

VARIABLES
    entry,           \* the function the caller invoked (the run's entry point)
    pc,              \* position of the run inside that function
    campaign,        \* market.main: the campaign being synced ("FBS" / "DBS")
    watch_remnants,  \* the inventory snapshot (list of rows of the spreadsheet)
    offer_ids,       \* the caller's offer-id list object (mutable Python list)
    fetched,         \* what the listing collaborator returned, per target (history)
    stocks,          \* the list create_stocks returned
    prices,          \* the list create_prices returned
    emitted,         \* per target: the stock / price lists reconciliation produced
    pending,         \* list(divide(...)): the batches not yet submitted
    calls,           \* log of collaborator calls attempted, in order
    exc,             \* the exception in flight / raised to the caller ("none")
    printed,         \* what main printed
    result,          \* the value the entry function returned
    price,           \* PriceSpec: the argument of price_conversion
    converted,       \* PriceSpec: the value computed from it
    lst,             \* DivideSpec: the argument list of divide
    n,               \* DivideSpec: the chunk size
    i,               \* DivideSpec: the generator's loop variable
    chunks,          \* DivideSpec: the chunks yielded so far
    catalog,         \* FetchSpec: the provider's product catalog
    last_id,         \* FetchSpec: the cursor sent with the next request
    product_list     \* FetchSpec: the items collected so far

vars == <<entry, pc, campaign, watch_remnants, offer_ids, fetched, stocks, prices,
          emitted, pending, calls, exc, printed, result, price, converted, lst, n, i,
          chunks, catalog, last_id, product_list>>

runVars    == <<campaign, emitted, pending, printed, result>>
priceVars  == <<price, converted>>
divideVars == <<lst, n, i, chunks>>
fetchVars  == <<catalog, last_id, product_list>>
reconVars  == <<watch_remnants, offer_ids, fetched, stocks, prices>>

-----------------------------------------------------------------------------
(* Generic list helpers (Python list semantics).                           *)

RECURSIVE SeqsUpTo(_, _)
SeqsUpTo(S, k) ==
    IF k = 0 THEN {<<>>}
    ELSE LET shorter == SeqsUpTo(S, k - 1)
         IN  shorter \cup {Append(s, x) : s \in {t \in shorter : Len(t) = k - 1}, x \in S}

In(x, list) == \E k \in 1..Len(list) : list[k] = x

\* a remove that deletes every occurrence of x (mutant of Remove)
RECURSIVE RemoveEvery(_, _)
RemoveEvery(list, x) ==
    IF list = <<>> THEN <<>>
    ELSE IF Head(list) = x THEN RemoveEvery(Tail(list), x)
         ELSE <<Head(list)>> \o RemoveEvery(Tail(list), x)

\* list.remove(x): delete the first occurrence of x
Remove(list, x) ==
    LET k == CHOOSE j \in 1..Len(list) :
                 list[j] = x /\ \A m \in 1..(j - 1) : list[m] # x
    IN  SubSeq(list, 1, k - 1) \o SubSeq(list, k + 1, Len(list))

\* lst[a:b] with 0-based, end-exclusive Python indices, 0 <= a
Slice(list, a, b) ==
    SubSeq(list, a + 1, IF b < Len(list) THEN b ELSE Len(list))

CeilDiv(a, b) == (a + b - 1) \div b

RECURSIVE Concat(_)
Concat(ss) == IF ss = <<>> THEN <<>> ELSE Head(ss) \o Concat(Tail(ss))

-----------------------------------------------------------------------------
(* Text: digits, int(), price_conversion.                                  *)

Digits == <<"0", "1", "2", "3", "4", "5", "6", "7", "8", "9">>
IsDigit(c) == \E d \in 1..10 : Digits[d] = c
DigitVal(c) == (CHOOSE d \in 1..10 : Digits[d] = c) - 1

RECURSIVE DecimalValue(_)
DecimalValue(s) ==
    IF s = <<>> THEN 0
    ELSE 10 * DecimalValue(SubSeq(s, 1, Len(s) - 1)) + DigitVal(s[Len(s)])

AllDigits(s) == \A k \in 1..Len(s) : IsDigit(s[k])

\* an int() that yields 0 for text that is no number (mutant of py_int)
py_int_default(s) ==
    IF s # <<>> /\ AllDigits(s)
    THEN [ok |-> TRUE, val |-> DecimalValue(s)]
    ELSE [ok |-> TRUE, val |-> 0]

\* int(text) for text over the model's alphabet: an optional sign and at
\* least one digit, else ValueError.
py_int(s) ==
    IF s # <<>> /\ AllDigits(s)
    THEN [ok |-> TRUE, val |-> DecimalValue(s)]
    ELSE IF Len(s) > 1 /\ s[1] \in {"-", "+"} /\ AllDigits(Tail(s))
    THEN [ok |-> TRUE,
          val |-> IF s[1] = "-" THEN 0 - DecimalValue(Tail(s)) ELSE DecimalValue(Tail(s))]
    ELSE [ok |-> FALSE, val |-> 0]

\* price.split(".")[0]: the text before the first "."
BeforeDot(s) ==
    IF In(".", s)
    THEN SubSeq(s, 1, (CHOOSE k \in 1..Len(s) :
                          s[k] = "." /\ \A m \in 1..(k - 1) : s[m] # ".") - 1)
    ELSE s

\* re.sub("[^0-9]", "", text): drop every character that is no ASCII digit
RECURSIVE OnlyDigits(_)
OnlyDigits(s) ==
    IF s = <<>> THEN <<>>
    ELSE IF IsDigit(Head(s)) THEN <<Head(s)>> \o OnlyDigits(Tail(s))
         ELSE OnlyDigits(Tail(s))

\* seller.price_conversion: returns a str (possibly the empty str)
price_conversion(p) == OnlyDigits(BeforeDot(p))

\* the chunk yielded at loop index start (mutant: one item short)
divide_chunk_short(list, size, start) == Slice(list, start, start + size - 1)

\* seller.py:278  yield lst[i : i + n]
divide_chunk(list, size, start) == Slice(list, start, start + size)

\* list(divide(lst, n)): the chunks lst[i : i + n] for i in range(0, len(lst), n)
RECURSIVE divide_from(_, _, _)
divide_from(list, size, start) ==
    IF start >= Len(list) THEN <<>>
    ELSE <<divide_chunk(list, size, start)>> \o divide_from(list, size, start + size)

divide(list, size) == divide_from(list, size, 0)

-----------------------------------------------------------------------------
(* Inventory rows and offer ids.                                           *)

\* str(watch.get("Код")): the codes rows carry, as text
Codes == {"A", "B"}
\* offer ids a marketplace catalog may list
OfferIds == {"A", "B", "C"}

GT10 == <<">", "1", "0">>
ONE  == <<"1">>
\* str(watch.get("Количество")): ">10", "1", a number, text that is no number
QuantityTokens == {GT10, ONE, <<"7">>, <<"x">>}

\* watch.get("Цена") of the docstrings' row: "5'990.00 rub."
P5990 == <<"5", "'", "9", "9", "0", ".", "0", "0", " ", "r", "u", "b", ".">>

Rows(quantities, texts) ==
    [code : Codes, quantity : quantities, price : texts]

\* utcnow() of the call, formatted; one value per run
Date == "2024-01-01T00:00:00Z"

-----------------------------------------------------------------------------
(* seller.py: create_stocks, create_prices.                                *)
(* A call returns [exc, value, offer_ids]: the exception raised ("none"),  *)
(* the returned list and the argument list object as the call left it.     *)

RECURSIVE seller_stock_loop(_, _, _, _)
seller_stock_loop(rows, k, ids, acc) ==
    IF k > Len(rows) THEN [exc |-> "none", value |-> acc, offer_ids |-> ids]
    ELSE LET watch == rows[k]
             count == watch.quantity
             parsed == py_int(count)
             stock == IF count = GT10 THEN 100
                      ELSE IF count = ONE THEN 0
                      ELSE parsed.val
         IN  IF ~In(watch.code, ids)
             THEN seller_stock_loop(rows, k + 1, ids, acc)
             ELSE IF count # GT10 /\ count # ONE /\ ~parsed.ok
             THEN [exc |-> "ValueError", value |-> acc, offer_ids |-> ids]
             ELSE seller_stock_loop(rows, k + 1, Remove(ids, watch.code),
                      Append(acc, [offer_id |-> watch.code, stock |-> stock]))

\* the zero entries appended in reverse catalog order (mutant of seller_zero_stocks)
RECURSIVE seller_zero_stocks_reversed(_)
seller_zero_stocks_reversed(ids) ==
    IF ids = <<>> THEN <<>>
    ELSE seller_zero_stocks_reversed(Tail(ids)) \o <<[offer_id |-> Head(ids), stock |-> 0]>>

RECURSIVE seller_zero_stocks(_)
seller_zero_stocks(ids) ==
    IF ids = <<>> THEN <<>>
    ELSE <<[offer_id |-> Head(ids), stock |-> 0]>> \o seller_zero_stocks(Tail(ids))

seller_create_stocks(rows, ids) ==
    LET matched == seller_stock_loop(rows, 1, ids, <<>>)
    IN  IF matched.exc # "none" THEN matched
        ELSE [exc |-> "none",
              value |-> matched.value \o seller_zero_stocks(matched.offer_ids),
              offer_ids |-> matched.offer_ids]

RECURSIVE seller_price_loop(_, _, _, _)
seller_price_loop(rows, k, ids, acc) ==
    IF k > Len(rows) THEN [exc |-> "none", value |-> acc, offer_ids |-> ids]
    ELSE LET watch == rows[k]
         IN  IF ~In(watch.code, ids)
             THEN seller_price_loop(rows, k + 1, ids, acc)
             ELSE seller_price_loop(rows, k + 1, ids,
                      Append(acc, [auto_action_enabled |-> "UNKNOWN",
                                   currency_code |-> "RUB",
                                   offer_id |-> watch.code,
                                   old_price |-> "0",
                                   price |-> price_conversion(watch.price)]))

seller_create_prices(rows, ids) == seller_price_loop(rows, 1, ids, <<>>)

-----------------------------------------------------------------------------
(* market.py: create_stocks, create_prices.                                *)

market_stock(sku, warehouse_id, count) ==
    [sku |-> sku, warehouseId |-> warehouse_id,
     items |-> <<[count |-> count, type |-> "FIT", updatedAt |-> Date]>>]

RECURSIVE market_stock_loop(_, _, _, _, _)
market_stock_loop(rows, k, ids, warehouse_id, acc) ==
    IF k > Len(rows) THEN [exc |-> "none", value |-> acc, offer_ids |-> ids]
    ELSE LET watch == rows[k]
             count == watch.quantity
             parsed == py_int(count)
             stock == IF count = GT10 THEN 100
                      ELSE IF count = ONE THEN 0
                      ELSE parsed.val
         IN  IF ~In(watch.code, ids)
             THEN market_stock_loop(rows, k + 1, ids, warehouse_id, acc)
             ELSE IF count # GT10 /\ count # ONE /\ ~parsed.ok
             THEN [exc |-> "ValueError", value |-> acc, offer_ids |-> ids]
             ELSE market_stock_loop(rows, k + 1, Remove(ids, watch.code), warehouse_id,
                      Append(acc, market_stock(watch.code, warehouse_id, stock)))

RECURSIVE market_zero_stocks(_, _)
market_zero_stocks(ids, warehouse_id) ==
    IF ids = <<>> THEN <<>>
    ELSE <<market_stock(Head(ids), warehouse_id, 0)>>
             \o market_zero_stocks(Tail(ids), warehouse_id)

market_create_stocks(rows, ids, warehouse_id) ==
    LET matched == market_stock_loop(rows, 1, ids, warehouse_id, <<>>)
    IN  IF matched.exc # "none" THEN matched
        ELSE [exc |-> "none",
              value |-> matched.value
                          \o market_zero_stocks(matched.offer_ids, warehouse_id),
              offer_ids |-> matched.offer_ids]

RECURSIVE market_price_loop(_, _, _, _)
market_price_loop(rows, k, ids, acc) ==
    IF k > Len(rows) THEN [exc |-> "none", value |-> acc, offer_ids |-> ids]
    ELSE LET watch == rows[k]
             value == py_int(price_conversion(watch.price))
         IN  IF ~In(watch.code, ids)
             THEN market_price_loop(rows, k + 1, ids, acc)
             ELSE IF ~value.ok
             THEN [exc |-> "ValueError", value |-> acc, offer_ids |-> ids]
             ELSE market_price_loop(rows, k + 1, ids,
                      Append(acc, [id |-> watch.code,
                                   price |-> [value |-> value.val,
                                              currencyId |-> "RUR"]]))

market_create_prices(rows, ids) == market_price_loop(rows, 1, ids, <<>>)

\* what the two modules' update records say, for the properties below
StockOfferId(u) == IF "sku" \in DOMAIN u THEN u.sku ELSE u.offer_id
StockQuantity(u) == IF "sku" \in DOMAIN u THEN u.items[1].count ELSE u.stock
PriceOfferId(u) == IF "id" \in DOMAIN u THEN u.id ELSE u.offer_id

-----------------------------------------------------------------------------
(* The listing collaborators and get_offer_ids.                            *)
(* A catalog is the list of the shop's offer ids in the provider's order;  *)
(* a cursor (last_id, page token) is the number of products already        *)
(* served, 0 standing for the empty string.                                *)

\* products per page ("limit": 1000 in seller.py, 200 in market.py), scaled
PageLimit == 2

RECURSIVE seller_items(_)
seller_items(ids) ==
    IF ids = <<>> THEN <<>>
    ELSE <<[offer_id |-> Head(ids)]>> \o seller_items(Tail(ids))

RECURSIVE market_items(_)
market_items(ids) ==
    IF ids = <<>> THEN <<>>
    ELSE <<[offer |-> [shopSku |-> Head(ids)]]>> \o market_items(Tail(ids))

PageEnd(cat, cursor) ==
    IF cursor + PageLimit < Len(cat) THEN cursor + PageLimit ELSE Len(cat)

\* seller.get_product_list: response_object.get("result") of /v2/product/list
seller_get_product_list(cat, cursor) ==
    [items |-> seller_items(Slice(cat, cursor, cursor + PageLimit)),
     total |-> Len(cat),
     last_id |-> PageEnd(cat, cursor)]

\* market.get_product_list: "result" of campaigns/{id}/offer-mapping-entries
market_get_product_list(cat, cursor) ==
    [offerMappingEntries |-> market_items(Slice(cat, cursor, cursor + PageLimit)),
     paging |-> [nextPageToken |->
                     IF PageEnd(cat, cursor) < Len(cat) THEN PageEnd(cat, cursor) ELSE 0]]

\* a stop test with >= in place of == (mutant of seller_last_page)
seller_last_page_at_least(some_prod, collected) == some_prod.total >= Len(collected)

\* seller.py:74  if total == len(product_list): break
seller_last_page(some_prod, collected) == some_prod.total = Len(collected)

\* market.py:134  if not page: break
market_last_page(some_prod) == some_prod.paging.nextPageToken = 0

RECURSIVE seller_offer_ids(_)
seller_offer_ids(products) ==
    IF products = <<>> THEN <<>>
    ELSE <<Head(products).offer_id>> \o seller_offer_ids(Tail(products))

RECURSIVE market_offer_ids(_)
market_offer_ids(products) ==
    IF products = <<>> THEN <<>>
    ELSE <<Head(products).offer.shopSku>> \o market_offer_ids(Tail(products))

\* seller.get_offer_ids when no request fails
RECURSIVE seller_collect(_, _, _)
seller_collect(cat, cursor, collected) ==
    LET some_prod == seller_get_product_list(cat, cursor)
        all == collected \o some_prod.items
    IN  IF seller_last_page(some_prod, all) THEN all
        ELSE seller_collect(cat, some_prod.last_id, all)

seller_get_offer_ids(cat) == seller_offer_ids(seller_collect(cat, 0, <<>>))

\* market.get_offer_ids when no request fails
RECURSIVE market_collect(_, _, _)
market_collect(cat, cursor, collected) ==
    LET some_prod == market_get_product_list(cat, cursor)
        all == collected \o some_prod.offerMappingEntries
    IN  IF market_last_page(some_prod) THEN all
        ELSE market_collect(cat, some_prod.paging.nextPageToken, all)

market_get_offer_ids(cat) == market_offer_ids(market_collect(cat, 0, <<>>))

\* what a failing request raises (requests' exceptions main tells apart)
RequestErrors == {"ReadTimeout", "ConnectionError", "HTTPError"}

-----------------------------------------------------------------------------
(* Idle values of the variables a specification does not use.              *)

NoTarget == "-"

IdleRun ==
    /\ campaign = NoTarget
    /\ emitted = <<>>
    /\ pending = <<>>
    /\ printed = <<>>
    /\ result = "None"

IdleRecon ==
    /\ watch_remnants = <<>>
    /\ offer_ids = <<>>
    /\ fetched = <<>>
    /\ stocks = <<>>
    /\ prices = <<>>

IdlePrice == price = <<>> /\ converted = <<>>

IdleDivide == lst = <<>> /\ n = 1 /\ i = 0 /\ chunks = <<>>

IdleFetch == catalog = <<>> /\ last_id = 0 /\ product_list = <<>>

-----------------------------------------------------------------------------
(* ReconSpec: a caller holding a snapshot and an offer-id list calls       *)
(* create_stocks and / or create_prices of one module.                     *)

MaxRows == 2
MaxCatalog == 3

\* create_stocks reads no price and create_prices no quantity: rows vary in
\* one of the two fields at a time
ReconRows == Rows(QuantityTokens, {P5990}) \cup Rows({<<"7">>}, {P5990, <<>>})
Snapshots == SeqsUpTo(ReconRows, MaxRows)
Catalogs == SeqsUpTo(OfferIds, MaxCatalog)

ReconInit ==
    /\ entry = "caller"
    /\ pc = "start"
    /\ watch_remnants \in Snapshots
    /\ offer_ids \in Catalogs
    /\ fetched = offer_ids
    /\ stocks = <<>>
    /\ prices = <<>>
    /\ calls = <<>>
    /\ exc = "none"
    /\ IdleRun /\ IdlePrice /\ IdleDivide /\ IdleFetch

\* the effect of one call on the caller's state
ReconReturn(name, r, isStocks) ==
    /\ calls' = Append(calls, name)
    /\ offer_ids' = r.offer_ids
    /\ exc' = r.exc
    /\ pc' = IF r.exc = "none" THEN "returned" ELSE "raised"
    /\ stocks' = IF isStocks /\ r.exc = "none" THEN r.value ELSE stocks
    /\ prices' = IF ~isStocks /\ r.exc = "none" THEN r.value ELSE prices
    /\ UNCHANGED <<entry, watch_remnants, fetched, runVars, priceVars, divideVars,
                   fetchVars>>

SellerCreateStocks ==
    /\ entry = "caller" /\ pc = "start"
    /\ ReconReturn("seller.create_stocks",
                   seller_create_stocks(watch_remnants, offer_ids), TRUE)

MarketCreateStocks ==
    /\ entry = "caller" /\ pc = "start"
    /\ ReconReturn("market.create_stocks",
                   market_create_stocks(watch_remnants, offer_ids, "W"), TRUE)

SellerCreatePrices ==
    /\ entry = "caller"
    /\ \/ pc = "start"
       \/ pc = "returned" /\ calls = <<"seller.create_stocks">>
    /\ ReconReturn("seller.create_prices",
                   seller_create_prices(watch_remnants, offer_ids), FALSE)

MarketCreatePrices ==
    /\ entry = "caller"
    /\ \/ pc = "start"
       \/ pc = "returned" /\ calls = <<"market.create_stocks">>
    /\ ReconReturn("market.create_prices",
                   market_create_prices(watch_remnants, offer_ids), FALSE)

ReconNext ==
    \/ SellerCreateStocks
    \/ MarketCreateStocks
    \/ SellerCreatePrices
    \/ MarketCreatePrices

ReconSpec == ReconInit /\ [][ReconNext]_vars

-----------------------------------------------------------------------------
(* Properties of reconciliation (ReconSpec).                               *)

Count(x, list) == Cardinality({k \in 1..Len(list) : list[k] = x})
NoDuplicates(list) == \A a, b \in 1..Len(list) : list[a] = list[b] => a = b
Elements(list) == {list[k] : k \in 1..Len(list)}
StockIds(updates) == [k \in 1..Len(updates) |-> StockOfferId(updates[k])]
PriceIds(updates) == [k \in 1..Len(updates) |-> PriceOfferId(updates[k])]
RowCodes(rows) == {rows[k].code : k \in 1..Len(rows)}

StocksCalled == In("seller.create_stocks", calls) \/ In("market.create_stocks", calls)
StocksReturned ==
    entry = "caller" /\ StocksCalled /\ ~(pc = "raised" /\ Len(calls) = 1)

\* C1: create_stocks never mutates its inputs: after the call the caller's
\* offer-id list holds the same elements in the same order as before it.
C1_InputsNotMutated ==
    (entry = "caller" /\ StocksCalled) => offer_ids = fetched

\* C3: the offer ids of the emitted StockUpdate records are members of the
\* fetched offer-id set and none occurs twice, and the same holds for the
\* emitted PriceUpdate records, whatever the snapshot and the catalog list.
C3_SubsetNoDuplicates ==
    (entry = "caller" /\ pc = "returned") =>
        /\ Elements(StockIds(stocks)) \subseteq Elements(fetched)
        /\ NoDuplicates(StockIds(stocks))
        /\ Elements(PriceIds(prices)) \subseteq Elements(fetched)
        /\ NoDuplicates(PriceIds(prices))

\* C4: when stock reconciliation completes, the output has one entry per
\* entry of the catalog list (as many entries for an id as the list holds),
\* and every catalog id matched by no row's code has quantity 0 in it.
C4_ZeroForUnmatched ==
    StocksReturned =>
        /\ Len(stocks) = Len(fetched)
        /\ \A id \in OfferIds : Count(id, StockIds(stocks)) = Count(id, fetched)
        /\ \A id \in Elements(fetched) \ RowCodes(watch_remnants) :
               /\ \E k \in 1..Len(stocks) :
                      StockOfferId(stocks[k]) = id /\ StockQuantity(stocks[k]) = 0
               /\ \A k \in 1..Len(stocks) :
                      StockOfferId(stocks[k]) = id => StockQuantity(stocks[k]) = 0

\* codes {A, B} against catalog [A, B, C]: three entries, C with 0
C4_Witness ==
    /\ StocksReturned
    /\ fetched = <<"A", "B", "C">>
    /\ RowCodes(watch_remnants) = {"A", "B"}
    /\ Len(stocks) = 3
    /\ StockOfferId(stocks[3]) = "C" /\ StockQuantity(stocks[3]) = 0
    /\ StockQuantity(stocks[1]) = 100

\* row k finds its code in the working list: the catalog lists the code at
\* least as often as rows 1..k carry it
IsMatched(rows, ids, k) ==
    Cardinality({j \in 1..k : rows[j].code = rows[k].code}) <= Count(rows[k].code, ids)

\* the indices of the matched rows, in snapshot order
MatchedRows(rows, ids) ==
    SelectSeq([k \in 1..Len(rows) |-> k], LAMBDA k : IsMatched(rows, ids, k))

IsIntegerText(t) ==
    \/ t # <<>> /\ AllDigits(t)
    \/ Len(t) > 1 /\ t[1] \in {"-", "+"} /\ AllDigits(Tail(t))

\* the bucketing table: ">10" is 100, "1" is 0, any other number itself
Bucket(t) ==
    IF t = GT10 THEN 100
    ELSE IF t = ONE THEN 0
    ELSE IF t[1] = "-" THEN 0 - DecimalValue(Tail(t))
    ELSE IF t[1] = "+" THEN DecimalValue(Tail(t))
    ELSE DecimalValue(t)

Malformed(t) == t # GT10 /\ t # ONE /\ ~IsIntegerText(t)

StocksFirst ==
    entry = "caller" /\ calls # <<>>
        /\ Head(calls) \in {"seller.create_stocks", "market.create_stocks"}

\* C11: every matched row gets quantity 100 for ">10", 0 for "1" and the
\* parsed integer otherwise; a matched row whose token is neither makes
\* create_stocks raise ValueError: no stock list is returned and no update
\* with a defaulted quantity exists.
C11_BucketOrRaise ==
    StocksFirst =>
        LET m == MatchedRows(watch_remnants, fetched)
            bad == \E q \in 1..Len(m) : Malformed(watch_remnants[m[q]].quantity)
        IN  /\ bad => /\ pc = "raised" /\ exc = "ValueError"
                      /\ Len(calls) = 1
                      /\ stocks = <<>>
            /\ ~bad => /\ StocksReturned
                       /\ Len(stocks) >= Len(m)
                       /\ \A q \in 1..Len(m) :
                              /\ StockOfferId(stocks[q]) = watch_remnants[m[q]].code
                              /\ StockQuantity(stocks[q]) =
                                     Bucket(watch_remnants[m[q]].quantity)

\* a matched ">10" row followed by a matched row whose quantity is no number
C11_Witness ==
    /\ StocksFirst
    /\ pc = "raised" /\ exc = "ValueError"
    /\ Len(watch_remnants) = 2
    /\ watch_remnants[1].quantity = GT10 /\ watch_remnants[2].quantity = <<"x">>
    /\ MatchedRows(watch_remnants, fetched) = <<1, 2>>
    /\ stocks = <<>>

\* rows 1, 7 and ">10" all matched and bucketed (two of them per snapshot)
C11_WitnessBuckets ==
    /\ StocksFirst /\ StocksReturned
    /\ Len(watch_remnants) = 2
    /\ watch_remnants[1].quantity = ONE /\ watch_remnants[2].quantity = <<"7">>
    /\ Len(stocks) >= 2
    /\ StockQuantity(stocks[1]) = 0 /\ StockQuantity(stocks[2]) = 7

\* the catalog entries no row consumes, in catalog order: entry j stays
\* when it is a later occurrence of its id than the rows carry the id
Unmatched(rows, ids) ==
    SelectSeq([j \in 1..Len(ids) |-> j],
              LAMBDA j : Cardinality({a \in 1..j : ids[a] = ids[j]})
                            > Cardinality({k \in 1..Len(rows) : rows[k].code = ids[j]}))

\* C12: the stock output is the updates of the matched rows in snapshot
\* order followed by a zero-quantity update for every unmatched catalog id
\* in catalog order; of two rows with one code that the catalog lists once
\* only the first is matched, the second yields no update.
C12_OutputOrder ==
    (StocksFirst /\ StocksReturned) =>
        LET m == MatchedRows(watch_remnants, fetched)
            u == Unmatched(watch_remnants, fetched)
        IN  /\ Len(stocks) = Len(m) + Len(u)
            /\ \A q \in 1..Len(m) :
                   StockOfferId(stocks[q]) = watch_remnants[m[q]].code
            /\ \A q \in 1..Len(u) :
                   /\ StockOfferId(stocks[Len(m) + q]) = fetched[u[q]]
                   /\ StockQuantity(stocks[Len(m) + q]) = 0
            /\ \A b \in 1..Len(watch_remnants) :
                   LET same == {a \in 1..b : watch_remnants[a].code = watch_remnants[b].code}
                       first == CHOOSE a \in same : \A c \in same : a <= c
                   IN  (first < b /\ Count(watch_remnants[b].code, fetched) = 1)
                       => /\ \E q \in 1..Len(m) : m[q] = first
                          /\ \A q \in 1..Len(m) : m[q] # b
                          /\ Count(watch_remnants[b].code, StockIds(stocks)) = 1

\* rows A, B against catalog [C, B, A]: the matched rows in snapshot order,
\* then the unmatched C
C12_Witness ==
    /\ StocksFirst /\ StocksReturned
    /\ Len(watch_remnants) = 2
    /\ watch_remnants[1].code = "A" /\ watch_remnants[2].code = "B"
    /\ fetched = <<"C", "B", "A">>
    /\ StockIds(stocks) = <<"A", "B", "C">>
    /\ StockQuantity(stocks[3]) = 0

\* two rows with code A against catalog [C, A]: one update for A, then C
C12_WitnessDuplicate ==
    /\ StocksFirst /\ StocksReturned
    /\ Len(watch_remnants) = 2
    /\ watch_remnants[1].code = "A" /\ watch_remnants[2].code = "A"
    /\ fetched = <<"C", "A">>
    /\ StockIds(stocks) = <<"A", "C">>

-----------------------------------------------------------------------------
(* PriceSpec: price_conversion on every text up to MaxPriceLen, as         *)
(* seller.create_prices uses it (the str) and as market.create_prices      *)
(* uses it (int of the str).                                               *)

MaxPriceLen == 4
PriceChars == {"0", "1", "9", ".", "a"}

PriceInit ==
    /\ entry = "price"
    /\ pc = "start"
    /\ price \in SeqsUpTo(PriceChars, MaxPriceLen)
    /\ converted = <<>>
    /\ calls = <<>>
    /\ exc = "none"
    /\ IdleRun /\ IdleRecon /\ IdleDivide /\ IdleFetch

\* seller.py:230  "price": price_conversion(watch.get("Цена"))
SellerPrice ==
    /\ entry = "price" /\ pc = "start"
    /\ converted' = price_conversion(price)
    /\ calls' = <<"seller.price_conversion">>
    /\ pc' = "returned"
    /\ UNCHANGED <<entry, exc, price, runVars, reconVars, divideVars, fetchVars>>

\* market.py:227  "value": int(price_conversion(watch.get("Цена")))
MarketPrice ==
    /\ entry = "price" /\ pc = "start"
    /\ LET value == py_int(price_conversion(price))
       IN  /\ converted' = IF value.ok THEN value.val ELSE converted
           /\ pc' = IF value.ok THEN "returned" ELSE "raised"
           /\ exc' = IF value.ok THEN "none" ELSE "ValueError"
    /\ calls' = <<"market.price_value">>
    /\ UNCHANGED <<entry, price, runVars, reconVars, divideVars, fetchVars>>

PriceNext == SellerPrice \/ MarketPrice

PriceSpec == PriceInit /\ [][PriceNext]_vars

\* the number the ASCII digits before the first "." spell, 0 when there are none
RECURSIVE DigitsBeforeDotValue(_, _)
DigitsBeforeDotValue(text, acc) ==
    IF text = <<>> \/ Head(text) = "." THEN acc
    ELSE IF IsDigit(Head(text))
         THEN DigitsBeforeDotValue(Tail(text), 10 * acc + DigitVal(Head(text)))
         ELSE DigitsBeforeDotValue(Tail(text), acc)

\* C9: normalize_price (price_conversion) never raises and yields, for every
\* text, the non-negative integer its digits before the first "." spell, 0
\* when there are none; also as the amount in market.create_prices.
C9_TotalNonNegative ==
    (entry = "price" /\ pc # "start") =>
        /\ pc = "returned"
        /\ calls = <<"market.price_value">> =>
               converted = DigitsBeforeDotValue(price, 0)
        /\ calls = <<"seller.price_conversion">> =>
               /\ converted # <<>>
               /\ DecimalValue(converted) = DigitsBeforeDotValue(price, 0)

\* the same, for the texts that hold a digit before the first "."
C9_HoldsWithDigits ==
    (entry = "price" /\ pc # "start" /\ price_conversion(price) # <<>>) =>
        /\ pc = "returned"
        /\ calls = <<"market.price_value">> =>
               converted = DigitsBeforeDotValue(price, 0)
        /\ calls = <<"seller.price_conversion">> =>
               DecimalValue(converted) = DigitsBeforeDotValue(price, 0)

-----------------------------------------------------------------------------
(* DivideSpec: the generator divide(lst, n), resumed chunk by chunk.       *)

MaxLen == 4
MaxSize == 3
Items == {"a", "b", "c"}

DivideInit ==
    /\ entry = "divide"
    /\ pc = "start"
    /\ lst \in SeqsUpTo(Items, MaxLen)
    /\ n \in 1..MaxSize
    /\ i = 0
    /\ chunks = <<>>
    /\ calls = <<>>
    /\ exc = "none"
    /\ IdleRun /\ IdleRecon /\ IdlePrice /\ IdleFetch

\* next(): the loop body at the next i of range(0, len(lst), n)
DivideYield ==
    /\ entry = "divide" /\ pc = "start"
    /\ i < Len(lst)
    /\ chunks' = Append(chunks, divide_chunk(lst, n, i))
    /\ i' = i + n
    /\ UNCHANGED <<entry, pc, lst, n, calls, exc, runVars, reconVars, priceVars,
                   fetchVars>>

\* next() with the range exhausted: the generator returns
DivideStop ==
    /\ entry = "divide" /\ pc = "start"
    /\ i >= Len(lst)
    /\ pc' = "returned"
    /\ UNCHANGED <<entry, lst, n, i, chunks, calls, exc, runVars, reconVars,
                   priceVars, fetchVars>>

DivideNext == DivideYield \/ DivideStop

DivideSpec == DivideInit /\ [][DivideNext]_vars

\* C10: the chunks are contiguous, in order and non-overlapping, so that
\* their concatenation is the input; there are ceil(len/size) of them, each
\* of at most size items and only the last of fewer; an empty input yields
\* none; the input list is never assigned.
C10_DivideChunks ==
    /\ [](entry = "divide" =>
            /\ Concat(chunks) = SubSeq(lst, 1, IF i < Len(lst) THEN i ELSE Len(lst))
            /\ \A k \in 1..Len(chunks) :
                   /\ Len(chunks[k]) >= 1
                   /\ Len(chunks[k]) <= n
                   /\ k < Len(chunks) => Len(chunks[k]) = n
            /\ pc = "returned" =>
                   /\ Concat(chunks) = lst
                   /\ Len(chunks) = CeilDiv(Len(lst), n)
                   /\ lst = <<>> => chunks = <<>>)
    /\ [][lst' = lst /\ n' = n]_vars

\* three items in chunks of two: a full chunk and a shorter last one
C10_Witness ==
    /\ entry = "divide" /\ pc = "returned"
    /\ Len(lst) = 3 /\ n = 2
    /\ chunks = <<SubSeq(lst, 1, 2), SubSeq(lst, 3, 3)>>

-----------------------------------------------------------------------------
(* FetchSpec: get_offer_ids of either module, one page request per step.   *)

MaxFetchCatalog == 5

FetchInit ==
    /\ entry \in {"seller.get_offer_ids", "market.get_offer_ids"}
    /\ pc = "start"
    /\ catalog \in SeqsUpTo(OfferIds, MaxFetchCatalog)
    /\ last_id = 0
    /\ product_list = <<>>
    /\ offer_ids = <<>>
    /\ calls = <<>>
    /\ exc = "none"
    /\ watch_remnants = <<>> /\ fetched = <<>> /\ stocks = <<>> /\ prices = <<>>
    /\ IdleRun /\ IdlePrice /\ IdleDivide

FetchFrame ==
    UNCHANGED <<entry, catalog, watch_remnants, fetched, stocks, prices, runVars,
                priceVars, divideVars>>

\* seller.py:70-79: one turn of the while loop, the request answered
SellerFetchPage ==
    /\ entry = "seller.get_offer_ids" /\ pc = "start"
    /\ LET some_prod == seller_get_product_list(catalog, last_id)
           all == product_list \o some_prod.items
       IN  /\ product_list' = all
           /\ last_id' = some_prod.last_id
           /\ IF seller_last_page(some_prod, all)
              THEN pc' = "returned" /\ offer_ids' = seller_offer_ids(all)
              ELSE pc' = pc /\ offer_ids' = offer_ids
    /\ calls' = Append(calls, "get_product_list")
    /\ exc' = exc
    /\ FetchFrame

\* market.py:131-139: one turn of the while loop, the request answered
MarketFetchPage ==
    /\ entry = "market.get_offer_ids" /\ pc = "start"
    /\ LET some_prod == market_get_product_list(catalog, last_id)
           all == product_list \o some_prod.offerMappingEntries
       IN  /\ product_list' = all
           /\ last_id' = some_prod.paging.nextPageToken
           /\ IF market_last_page(some_prod)
              THEN pc' = "returned" /\ offer_ids' = market_offer_ids(all)
              ELSE pc' = pc /\ offer_ids' = offer_ids
    /\ calls' = Append(calls, "get_product_list")
    /\ exc' = exc
    /\ FetchFrame

\* response.raise_for_status() or the transport raises inside get_product_list
FetchPageFails ==
    /\ entry \in {"seller.get_offer_ids", "market.get_offer_ids"} /\ pc = "start"
    /\ \E e \in RequestErrors : exc' = e
    /\ pc' = "raised"
    /\ calls' = Append(calls, "get_product_list failed")
    /\ UNCHANGED <<last_id, product_list, offer_ids>>
    /\ FetchFrame

FetchNext == SellerFetchPage \/ MarketFetchPage \/ FetchPageFails

\* the loop is the only thread: it keeps taking turns until it leaves
FetchSpec == FetchInit /\ [][FetchNext]_vars /\ WF_vars(FetchNext)

\* C8: get_offer_ids ends for every finite catalog, the empty one included;
\* it requests pages until the provider reports no further page, returns
\* the offer ids of all pages in page order, and leaves the loop normally
\* (an exception only when a request failed).
C8_FetchDrainsAndEnds ==
    /\ <>(pc \in {"returned", "raised"})
    /\ [](pc = "returned" =>
            /\ offer_ids = catalog
            /\ exc = "none"
            /\ Len(calls) = IF catalog = <<>> THEN 1 ELSE CeilDiv(Len(catalog), PageLimit))
    /\ [](pc = "raised" => calls[Len(calls)] = "get_product_list failed")

\* a catalog of three pages drained by three requests
C8_Witness ==
    /\ entry \in {"seller.get_offer_ids", "market.get_offer_ids"}
    /\ pc = "returned"
    /\ Len(catalog) > 2 * PageLimit
    /\ Len(calls) >= 3
    /\ offer_ids = catalog

-----------------------------------------------------------------------------
(* Spec: one run of an entry point: seller.main, market.main, or an        *)
(* awaited upload_stocks / upload_prices coroutine of either module.       *)
(* Every collaborator call (listing, download, upload) either answers or   *)
(* raises; calls logs each attempt.                                        *)

RunMaxRows == 1
RunMaxCatalog == 2
\* batch sizes, scaled from the code's 100, 900, 1000, 2000 and 500
SellerStockBatch == 1
SellerMainPriceBatch == 1
SellerPriceBatch == 2
MarketStockBatch == 1
MarketPriceBatch == 2

RunRows == Rows({GT10, <<"x">>}, {P5990, <<>>})
RunSnapshots == SeqsUpTo(RunRows, RunMaxRows)
RunCatalogs == SeqsUpTo({"A", "C"}, RunMaxCatalog)

Mains == {"seller.main", "market.main"}
Uploads == {"seller.upload_stocks", "seller.upload_prices",
            "market.upload_stocks", "market.upload_prices"}
SellerEntries == {"seller.main", "seller.upload_stocks", "seller.upload_prices"}
StockEntries == {"seller.upload_stocks", "market.upload_stocks"}
PriceEntries == {"seller.upload_prices", "market.upload_prices"}

\* the catalog the current calls address
Target == IF entry \in SellerEntries THEN "OZON" ELSE campaign
Warehouse == IF campaign = "DBS" THEN "WAREHOUSE_DBS_ID" ELSE "WAREHOUSE_FBS_ID"

Init ==
    /\ entry \in Mains \cup Uploads
    /\ pc = IF entry = "market.main" THEN "download_stock" ELSE "get_offer_ids"
    /\ campaign = IF entry \in SellerEntries THEN NoTarget ELSE "FBS"
    /\ IF entry \in Uploads THEN watch_remnants \in RunSnapshots
                            ELSE watch_remnants = <<>>
    /\ offer_ids = <<>>
    /\ fetched = <<>>
    /\ stocks = <<>>
    /\ prices = <<>>
    /\ emitted = <<>>
    /\ pending = <<>>
    /\ calls = <<>>
    /\ exc = "none"
    /\ printed = <<>>
    /\ result = "None"
    /\ IdlePrice /\ IdleDivide /\ IdleFetch

RunFrame == UNCHANGED <<entry, priceVars, divideVars, fetchVars>>

Call(op, arg, err) ==
    [op |-> op, target |-> Target, arg |-> arg, ok |-> err = "none", err |-> err]

\* main's except clauses: what each prints
Message(e) ==
    IF e = "ReadTimeout" THEN <<"Prevysheno vremya ozhidaniya...">>
    ELSE IF e = "ConnectionError" THEN <<e, "Oshibka soedineniya">>
    ELSE <<e, "ERROR_2">>

\* seller.py:335 / market.py:300: the statements main runs inside try
InTry == entry = "seller.main" \/ (entry = "market.main" /\ pc # "download_stock")

\* an exception handling that reports every exception and returns (mutant)
RaiseCaughtEverywhere(e) ==
    /\ printed' = Append(printed, Message(e))
    /\ pc' = "returned"
    /\ exc' = "none"
    /\ result' = "None"
    /\ campaign' = campaign

\* exception e raised at pc: main's try catches it, prints and returns;
\* anywhere else it leaves the entry function
Raise(e) ==
    IF InTry
    THEN /\ printed' = Append(printed, Message(e))
         /\ pc' = "returned"
         /\ exc' = "none"
         /\ result' = "None"
         /\ campaign' = campaign
    ELSE /\ pc' = "raised"
         /\ exc' = e
         /\ UNCHANGED <<printed, result, campaign>>

\* the statement after the stock loop
AfterStocks ==
    IF entry = "seller.main" THEN "create_prices"
    ELSE IF entry = "market.main" THEN "upload_prices"
    ELSE "returned"

NotEmpty(updates) ==
    SelectSeq(updates, LAMBDA u : StockQuantity(u) # 0)

\* control reaches statement p (a return sets the returned value)
Goto(p, all_stocks, all_prices) ==
    /\ pc' = p
    /\ result' = IF p # "returned" THEN result
                 ELSE IF entry \in StockEntries THEN <<NotEmpty(all_stocks), all_stocks>>
                 ELSE IF entry \in PriceEntries THEN all_prices
                 ELSE "None"
    /\ UNCHANGED <<printed, exc, campaign>>

\* offer_ids = get_offer_ids(...): every page request answered
GetOfferIds ==
    /\ pc = "get_offer_ids"
    /\ \E cat \in RunCatalogs :
         LET ids == IF entry \in SellerEntries THEN seller_get_offer_ids(cat)
                    ELSE market_get_offer_ids(cat)
         IN  /\ offer_ids' = ids
             /\ fetched' = ids
             /\ calls' = Append(calls, Call("get_offer_ids", ids, "none"))
    /\ Goto(IF entry = "seller.main" THEN "download_stock"
            ELSE IF entry \in PriceEntries THEN "create_prices"
            ELSE "create_stocks", stocks, prices)
    /\ UNCHANGED <<watch_remnants, stocks, prices, emitted, pending>>
    /\ RunFrame

\* a page request of get_offer_ids raises
GetOfferIdsFails ==
    /\ pc = "get_offer_ids"
    /\ \E e \in RequestErrors :
         /\ calls' = Append(calls, Call("get_offer_ids", <<>>, e))
         /\ Raise(e)
    /\ UNCHANGED <<watch_remnants, offer_ids, fetched, stocks, prices, emitted, pending>>
    /\ RunFrame

\* watch_remnants = download_stock()
DownloadStock ==
    /\ pc = "download_stock"
    /\ watch_remnants' \in RunSnapshots
    /\ calls' = Append(calls, Call("download_stock", <<>>, "none"))
    /\ Goto(IF entry = "seller.main" THEN "create_stocks" ELSE "get_offer_ids",
            stocks, prices)
    /\ UNCHANGED <<offer_ids, fetched, stocks, prices, emitted, pending>>
    /\ RunFrame

DownloadStockFails ==
    /\ pc = "download_stock"
    /\ \E e \in RequestErrors :
         /\ calls' = Append(calls, Call("download_stock", <<>>, e))
         /\ Raise(e)
    /\ UNCHANGED <<watch_remnants, offer_ids, fetched, stocks, prices, emitted, pending>>
    /\ RunFrame

\* stocks = create_stocks(watch_remnants, offer_ids[, warehouse_id]) and the
\* list(divide(stocks, size)) of the for statement that follows
CreateStocks ==
    /\ pc = "create_stocks"
    /\ LET r == IF entry \in SellerEntries
                THEN seller_create_stocks(watch_remnants, offer_ids)
                ELSE market_create_stocks(watch_remnants, offer_ids, Warehouse)
           batches == divide(r.value, IF entry \in SellerEntries THEN SellerStockBatch
                                      ELSE MarketStockBatch)
       IN  /\ offer_ids' = r.offer_ids
           /\ IF r.exc # "none"
              THEN /\ Raise(r.exc)
                   /\ UNCHANGED <<stocks, emitted, pending>>
              ELSE /\ stocks' = r.value
                   /\ emitted' = Append(emitted, [kind |-> "stocks", target |-> Target,
                                                  updates |-> r.value])
                   /\ pending' = batches
                   /\ Goto(IF batches = <<>> THEN AfterStocks ELSE "update_stocks",
                           r.value, prices)
    /\ UNCHANGED <<watch_remnants, fetched, prices, calls>>
    /\ RunFrame

\* update_stocks(some_stock, ...) answers: one turn of the for loop
UpdateStocks ==
    /\ pc = "update_stocks"
    /\ calls' = Append(calls, Call("update_stocks", Head(pending), "none"))
    /\ pending' = Tail(pending)
    /\ Goto(IF Tail(pending) = <<>> THEN AfterStocks ELSE pc, stocks, prices)
    /\ UNCHANGED <<watch_remnants, offer_ids, fetched, stocks, prices, emitted>>
    /\ RunFrame

UpdateStocksFails ==
    /\ pc = "update_stocks"
    /\ \E e \in RequestErrors :
         /\ calls' = Append(calls, Call("update_stocks", Head(pending), e))
         /\ Raise(e)
    /\ UNCHANGED <<watch_remnants, offer_ids, fetched, stocks, prices, emitted, pending>>
    /\ RunFrame

\* prices = create_prices(watch_remnants, offer_ids) and list(divide(prices, size))
CreatePrices ==
    /\ pc = "create_prices"
    /\ LET r == IF entry \in SellerEntries
                THEN seller_create_prices(watch_remnants, offer_ids)
                ELSE market_create_prices(watch_remnants, offer_ids)
           batches == divide(r.value, IF entry = "seller.main" THEN SellerMainPriceBatch
                                      ELSE IF entry \in SellerEntries THEN SellerPriceBatch
                                      ELSE MarketPriceBatch)
       IN  IF r.exc # "none"
           THEN /\ Raise(r.exc)
                /\ UNCHANGED <<prices, emitted, pending>>
           ELSE /\ prices' = r.value
                /\ emitted' = Append(emitted, [kind |-> "prices", target |-> Target,
                                               updates |-> r.value])
                /\ pending' = batches
                /\ Goto(IF batches = <<>> THEN "returned" ELSE "update_price",
                        stocks, r.value)
    /\ UNCHANGED <<watch_remnants, offer_ids, fetched, stocks, calls>>
    /\ RunFrame

\* update_price(some_price, ...) answers: one turn of the for loop
UpdatePrice ==
    /\ pc = "update_price"
    /\ calls' = Append(calls, Call("update_price", Head(pending), "none"))
    /\ pending' = Tail(pending)
    /\ Goto(IF Tail(pending) = <<>> THEN "returned" ELSE pc, stocks, prices)
    /\ UNCHANGED <<watch_remnants, offer_ids, fetched, stocks, prices, emitted>>
    /\ RunFrame

UpdatePriceFails ==
    /\ pc = "update_price"
    /\ \E e \in RequestErrors :
         /\ calls' = Append(calls, Call("update_price", Head(pending), e))
         /\ Raise(e)
    /\ UNCHANGED <<watch_remnants, offer_ids, fetched, stocks, prices, emitted, pending>>
    /\ RunFrame

\* market.py:308 and 317: upload_prices(...) called without await; the
\* call builds a coroutine object and runs none of the function's body
UploadPricesNotAwaited ==
    /\ entry = "market.main" /\ pc = "upload_prices"
    /\ IF campaign = "FBS"
       THEN /\ campaign' = "DBS"
            /\ pc' = "get_offer_ids"
       ELSE /\ campaign' = campaign
            /\ pc' = "returned"
    /\ UNCHANGED <<watch_remnants, offer_ids, fetched, stocks, prices, emitted, pending,
                   calls, exc, printed, result>>
    /\ RunFrame

Next ==
    \/ GetOfferIds
    \/ GetOfferIdsFails
    \/ DownloadStock
    \/ DownloadStockFails
    \/ CreateStocks
    \/ UpdateStocks
    \/ UpdateStocksFails
    \/ CreatePrices
    \/ UpdatePrice
    \/ UpdatePriceFails
    \/ UploadPricesNotAwaited

Spec == Init /\ [][Next]_vars

-----------------------------------------------------------------------------
(* Properties of the runs (Spec).                                          *)

Ended == pc \in {"returned", "raised"}
ListingOrUpload == {"get_offer_ids", "update_stocks", "update_price"}
FailedCalls == {k \in 1..Len(calls) : calls[k].op \in ListingOrUpload /\ ~calls[k].ok}
EmittedOf(kind, target) ==
    {k \in 1..Len(emitted) : emitted[k].kind = kind /\ emitted[k].target = target}
\* the batches submitted (and accepted) by op for target, in call order
Submitted(op, target) ==
    SelectSeq(calls, LAMBDA c : c.op = op /\ c.target = target /\ c.ok)
RECURSIVE BatchesOf(_)
BatchesOf(cs) == IF cs = <<>> THEN <<>> ELSE <<Head(cs).arg>> \o BatchesOf(Tail(cs))

\* the price updates the claim expects: one per row whose code is in the
\* list, in snapshot order, as <<offer id, amount>>
RECURSIVE ExpectedPrices(_, _)
ExpectedPrices(rows, ids) ==
    IF rows = <<>> THEN <<>>
    ELSE (IF In(Head(rows).code, ids)
          THEN <<<<Head(rows).code, DigitsBeforeDotValue(Head(rows).price, 0)>>>>
          ELSE <<>>) \o ExpectedPrices(Tail(rows), ids)

\* offer id and amount of seller price updates (the empty str counted as 0)
SellerPricePairs(updates) ==
    [k \in 1..Len(updates) |-> <<updates[k].offer_id, DecimalValue(updates[k].price)>>]

\* C2: in the run of seller.main the price output holds one update, in
\* snapshot order, for each row whose code is in the fetched offer-id list,
\* with the normalized price of the row, and none for other offer ids.
C2_PricesForFetchedIds ==
    (entry = "seller.main" /\ EmittedOf("prices", "OZON") # {}) =>
        SellerPricePairs(prices) = ExpectedPrices(watch_remnants, fetched)

\* C5: in market.main, when a listing or upload call of the FBS campaign
\* fails, the offer ids of the DBS campaign are still requested in the run.
C5_DbsAttemptedAfterFbsFailure ==
    (entry = "market.main" /\ Ended
        /\ \E k \in FailedCalls : calls[k].target = "FBS") =>
        \E k \in 1..Len(calls) :
            calls[k].target = "DBS" /\ calls[k].op = "get_offer_ids"

RunTargets == IF entry = "market.main" THEN {"FBS", "DBS"} ELSE {Target}

\* the list the listing collaborator returned for target
FetchedFor(target) ==
    LET got == Submitted("get_offer_ids", target)
    IN  IF got = <<>> THEN <<>> ELSE got[1].arg

\* C6: in a run of main that ends with no call failed and nothing raised,
\* for each target the stock list and the price list were produced and
\* submitted: the stock batches, in order, concatenate to the stock list, the
\* price batches to the price list (no price list only where no row of the
\* snapshot carries a fetched id, so that no PriceUpdate is due), and the
\* price batches follow the stock batches.
C6_EverythingSubmitted ==
    (entry \in Mains /\ pc = "returned" /\ printed = <<>>) =>
        \A t \in RunTargets :
            /\ \E k \in EmittedOf("stocks", t) :
                   Concat(BatchesOf(Submitted("update_stocks", t))) = emitted[k].updates
            /\ \/ \E k \in EmittedOf("prices", t) :
                      Concat(BatchesOf(Submitted("update_price", t))) = emitted[k].updates
               \/ /\ EmittedOf("prices", t) = {}
                  /\ ExpectedPrices(watch_remnants, FetchedFor(t)) = <<>>
            /\ \A a, b \in 1..Len(calls) :
                   (calls[a].target = t /\ calls[b].target = t
                    /\ calls[a].op = "update_stocks" /\ calls[b].op = "update_price")
                   => a < b

\* the same for the runs that do execute their price step
C6_HoldsWhereAwaited ==
    (entry \in {"seller.main"} \cup Uploads /\ pc = "returned" /\ printed = <<>>) =>
        /\ entry \notin PriceEntries =>
               \E k \in EmittedOf("stocks", Target) :
                   Concat(BatchesOf(Submitted("update_stocks", Target))) = emitted[k].updates
        /\ entry \notin StockEntries =>
               \E k \in EmittedOf("prices", Target) :
                   Concat(BatchesOf(Submitted("update_price", Target))) = emitted[k].updates

\* C7: a failure of the listing collaborator or of an upload collaborator
\* leaves the sync operation (upload_stocks, upload_prices, main) as the
\* exception the collaborator raised.
C7_FailurePropagates ==
    Ended =>
        \A k \in FailedCalls : pc = "raised" /\ exc = calls[k].err

\* C7 as amended: the failed call is the last call of the run; out of
\* upload_stocks and upload_prices the collaborator's exception is raised
\* unchanged and nothing is printed; main catches it, prints its message
\* and returns normally.
C7_PropagatesOrReported ==
    (entry \in Mains \cup Uploads /\ Ended) =>
        \A k \in FailedCalls :
            /\ k = Len(calls)
            /\ entry \in Uploads =>
                   pc = "raised" /\ exc = calls[k].err /\ printed = <<>>
            /\ entry \in Mains =>
                   pc = "returned" /\ exc = "none" /\ printed = <<Message(calls[k].err)>>

\* upload_stocks whose second batch is refused
C7_Witness ==
    /\ entry \in StockEntries
    /\ pc = "raised"
    /\ Len(calls) = 3
    /\ calls[2].op = "update_stocks" /\ calls[2].ok
    /\ calls[3].op = "update_stocks" /\ ~calls[3].ok
    /\ exc = calls[3].err

====
